---- MODULE Spec2Model ----
(***************************************************************************)
(* Model of db-scraper: the track parser, the playlist and author         *)
(* extractors, the download-and-audit stage of DiscografiaScraper, the     *)
(* workflow that chains them, the report files its operations read and    *)
(* write, merge_reports, and the front-end of app.py.                      *)
(*                                                                         *)
(* Text values (titles, authors, file names, cells of a report) are        *)
(* sequences of one-character strings; a few fixed texts are kept as one   *)
(* token ("62582", ".mp3", "Autor Desconhecido").                          *)
(***************************************************************************)
EXTENDS Naturals, Sequences, FiniteSets, TLC

VARIABLES
    dados,        \* dados_musicas: the list of records an extractor returned
    df,           \* the DataFrame the download stage works on
    entry,        \* df as it was when the stage was entered
    pc,           \* "idle" | "stage" | "raised"
    caller,       \* "live" (download_from_playlist/author) | "csv" | "none"
    output_dir,   \* self.output_dir of the scraper instance in use
    status,       \* per row of df: "skip" | "pending" | "exists" | "ok" | "failed" | "raised"
    files,        \* the audio files on disk: path -> content
    files0,       \* files as they were when the stage was entered
    dirs,         \* the folders created with os.makedirs
    dirs0,        \* dirs as they were when the stage was entered
    requests,     \* the audio GET requests of the current stage run (of the last report
                  \* operation), in order
    exc,          \* the exception that left the stage, "none" if none
    reports,      \* the CSV reports on disk
    today,        \* the day datetime.now() falls on
    runs,         \* how many times the download stage has been entered
    prev,         \* the last completed stage run: its root, the rows it judged downloaded
    track,        \* the track fragment handed to _parse_track_data
    lookup,       \* what the content-detail request of the parser met
    parsed,       \* the value _parse_track_data returned
    parseExc,     \* the exception that left _parse_track_data, "none" if none
    extractOp,    \* the extractor in use: "none" | "playlist" | "author"
    extractPc,    \* "idle" | "loop" (the while of extract_author_data) | "returned" | "raised"
    next_page_url,   \* the page extract_author_data fetches next, 0 for None
    all_songs_data,  \* the records an extractor has aggregated
    fetched,      \* the responses to the tracklist / author page requests, in order
    extractExc,   \* the exception that left the extractor, "none" if none
    limit,        \* the limit argument of extract_playlist_data, 0 before any call
    csv_files,    \* the report files on disk: path -> the CSV table
    clock,        \* the second datetime.now() falls on
    ret,          \* the value merge_reports returned
    last,         \* the last report operation: its name, arguments, second, exception and
                  \* the file it wrote, the report paths before it, the operations so far
    st            \* the page of app.py: its widgets, the message the last run of the
                  \* script showed and the exception its handler caught

stageVars == <<dados, df, entry, pc, caller, output_dir, status, files, files0,
               dirs, dirs0, requests, exc, reports, today, runs, prev>>
parseVars == <<track, lookup, parsed, parseExc>>
extractVars == <<extractOp, extractPc, next_page_url, all_songs_data, fetched, extractExc,
                 limit>>
reportVars == <<csv_files, clock, ret, last>>
appVars == <<st>>
vars == <<dados, df, entry, pc, caller, output_dir, status, files, files0,
          dirs, dirs0, requests, exc, reports, today, runs, prev, track, lookup, parsed, parseExc,
          extractOp, extractPc, next_page_url, all_songs_data, fetched, extractExc, limit,
          csv_files, clock, ret, last,
          st>>

(***************************************************************************)
(* Bounds of the model.                                                    *)
(***************************************************************************)
MaxRecords == 2
MaxRuns == 2
MaxDay == 2
MaxTitleLen == 3

(***************************************************************************)
(* Values of a cell.                                                       *)
(***************************************************************************)
NaN == <<"<NaN>">>
None == <<"<None>">>
NoCol == <<"<no column>">>
Empty == <<>>

IsNa(v) == v = NaN \/ v = None

\* str(x) of a cell value
Str(v) == IF v = NaN THEN <<"n", "a", "n">>
          ELSE IF v = None THEN <<"N", "o", "n", "e">>
          ELSE v

(***************************************************************************)
(* Text helpers.                                                           *)
(***************************************************************************)
Whitespace == {" "}

\* s.strip(chars)
RECURSIVE LStrip(_, _)
LStrip(s, chars) == IF s # <<>> /\ Head(s) \in chars THEN LStrip(Tail(s), chars) ELSE s

RECURSIVE RStrip(_, _)
RStrip(s, chars) ==
    IF s # <<>> /\ s[Len(s)] \in chars THEN RStrip(SubSeq(s, 1, Len(s) - 1), chars) ELSE s

Strip(s, chars) == RStrip(LStrip(s, chars), chars)

\* re.sub(r'[chars]', "", s)
RemoveChars(s, chars) == SelectSeq(s, LAMBDA c : c \notin chars)

\* s.split(" / ")[0]
AuthorSeparator == <<" ", "/", " ">>

SplitFirst(s) ==
    LET hits == {i \in 1..Len(s) : i + 2 <= Len(s) /\ SubSeq(s, i, i + 2) = AuthorSeparator}
    IN  IF hits = {} THEN s
        ELSE SubSeq(s, 1, (CHOOSE i \in hits : \A j \in hits : i <= j) - 1)

(***************************************************************************)
(* Folder and file name of a row (_download_and_audit_dataframe).          *)
(***************************************************************************)
AutorDesconhecido == <<"Autor Desconhecido">>
IllegalPathChars == {"\\", "/", "*", "?", ":", "\"", "<", ">", "|"}

\* lines 192-197; row["autor"] goes through str() before the emptiness test
NomePasta(autor) ==
    LET autores == Str(autor)
    IN  IF autores # <<>>
        THEN RemoveChars(Strip(SplitFirst(autores), Whitespace), IllegalPathChars)
        ELSE AutorDesconhecido

\* unicodedata.normalize("NFKD", c).encode("ASCII", "ignore") of one character:
\* an accented letter keeps its base letter, any other non-ASCII character is
\* dropped, an ASCII character is kept.
AsciiChars == {"E", "M", "A", "W", "T", "O", "N", "e", "m", "a", "w", "t", "o", "n",
               "0", "1", " ", "-", "?", "/", "*", ".", "_"}

NfkdAscii(c) ==
    CASE c = "É" -> <<"E">>
      [] c = "é" -> <<"e">>
      [] c \in AsciiChars -> <<c>>
      [] OTHER -> <<>>

\* str.lower() of one character
LowerChar(c) ==
    CASE c = "E" -> "e"
      [] c = "M" -> "m"
      [] c = "A" -> "a"
      [] c = "W" -> "w"
      [] c = "T" -> "t"
      [] c = "O" -> "o"
      [] c = "N" -> "n"
      [] c = "É" -> "é"
      [] OTHER -> c

\* str.upper() of one character
UpperChar(c) ==
    CASE c = "e" -> "E"
      [] c = "m" -> "M"
      [] c = "a" -> "A"
      [] c = "w" -> "W"
      [] c = "t" -> "T"
      [] c = "o" -> "O"
      [] c = "n" -> "N"
      [] c = "é" -> "É"
      [] OTHER -> c

Letters == {"E", "M", "A", "W", "T", "O", "N", "É", "e", "m", "a", "w", "t", "o", "n", "é"}

\* str.title(): a letter that follows a letter is lower-cased, any other letter
\* is upper-cased
TitleCase(s) ==
    [i \in 1..Len(s) |->
        IF i > 1 /\ s[i - 1] \in Letters THEN LowerChar(s[i]) ELSE UpperChar(s[i])]

\* [a-z0-9\s-]
SlugChars == {"e", "m", "a", "t", "o", "n", "w", "0", "1", " ", "-"}
\* [\s-]
SlugSeparators == {" ", "-"}

WithoutAccents(s) ==
    LET f[i \in 0..Len(s)] == IF i = 0 THEN <<>> ELSE f[i - 1] \o NfkdAscii(s[i])
    IN  f[Len(s)]

Lower(s) == [i \in 1..Len(s) |-> LowerChar(s[i])]

\* re.sub(r"[\s-]+", "-", s)
CollapseSeparators(s) ==
    LET f[i \in 0..Len(s)] ==
            IF i = 0 THEN <<>>
            ELSE IF s[i] \in SlugSeparators
                 THEN IF i > 1 /\ s[i - 1] \in SlugSeparators
                      THEN f[i - 1] ELSE f[i - 1] \o <<"-">>
                 ELSE f[i - 1] \o <<s[i]>>
    IN  f[Len(s)]

\* lines 204-210
SlugKeepingCase(titulo) ==
    LET titulo_sem_acentos == WithoutAccents(titulo)
        titulo_limpo == SelectSeq(titulo_sem_acentos, LAMBDA c : c \in SlugChars)
    IN  Strip(CollapseSeparators(titulo_limpo), {"-"})

Slug(titulo) ==
    LET titulo_sem_acentos == WithoutAccents(titulo)
        titulo_limpo == SelectSeq(Lower(titulo_sem_acentos), LAMBDA c : c \in SlugChars)
    IN  Strip(CollapseSeparators(titulo_limpo), {"-"})

\* line 211: f"{slug_titulo}_{str(data_id)}.mp3"
NomeArquivo(titulo, data_id) == Slug(Str(titulo)) \o <<"_">> \o Str(data_id) \o <<".mp3">>

\* line 212: Path(self.output_dir) / nome_pasta / nome_arquivo_final
FilePath(root, pasta, nome) == [root |-> root, pasta |-> pasta, nome |-> nome]

TargetPath(root, row) ==
    FilePath(root, NomePasta(row.autor), NomeArquivo(row.titulo, row.data_id))

(***************************************************************************)
(* Rows and reports.                                                       *)
(***************************************************************************)
AuditColumns == {"pasta", "nome_arquivo", "data_download"}
MetaColumns == {"data_id", "titulo", "autor", "audio_url"}

\* pd.DataFrame(dados_musicas): every key of the records is a column; the rows of
\* an extractor carry no audit column
DataFrameOf(d) ==
    [i \in 1..Len(d) |->
        [c \in DOMAIN d[i] \cup AuditColumns |->
            IF c \in DOMAIN d[i] THEN d[i][c] ELSE NoCol]]

\* DataFrame.to_csv: a missing value is written as an empty cell
ToCsvCell(v) == IF v \in {NaN, None, NoCol} THEN Empty ELSE v
ToCsv(rows) ==
    [i \in 1..Len(rows) |-> [c \in DOMAIN rows[i] |-> ToCsvCell(rows[i][c])]]

\* pd.read_csv(path, dtype=COLUMN_DTYPES): an empty cell is read as NaN
ReadCsvCell(c) == IF c = Empty THEN NaN ELSE c
ReadCsv(csv) ==
    [i \in 1..Len(csv) |-> [c \in DOMAIN csv[i] |-> ReadCsvCell(csv[i][c])]]

\* datetime.now().strftime("%d/%m/%Y")
Strftime(day) == <<ToString(day)>>

(***************************************************************************)
(* The inputs: what an extractor can hand over, the reports a user can     *)
(* supply, the destination roots, the outcomes of one download attempt.    *)
(***************************************************************************)
EMato == <<"É", " ", "M", "a", "t", "o">>
WilsonAlvaiade == <<"W", " ", "/", " ", "A">>
Url1 == <<"http://fake.url/audio/1.mp3">>
Url2 == <<"http://fake.url/audio/2.mp3">>

Meta(id, titulo, autor, url) ==
    [data_id |-> id, titulo |-> titulo, autor |-> autor, audio_url |-> url]

RecordSamples ==
    { Meta(<<"62582">>, EMato, WilsonAlvaiade, Url1),
      Meta(<<"1">>, <<"-", "A">>, <<"W", "*">>, Url2),
      Meta(<<"62582">>, EMato, Empty, Url1),
      Meta(None, <<"Título Desconhecido">>, Empty, Empty) }

TitleChars == {"É", "M", "a", " ", "-", "?"}

RECURSIVE SeqsUpTo(_, _)
SeqsUpTo(S, n) ==
    IF n = 0 THEN {<<>>}
    ELSE LET shorter == SeqsUpTo(S, n - 1)
         IN  shorter \cup {Append(s, c) : s \in shorter, c \in S}

\* a report a user supplies to download_from_csv: the audio_url cell of a
\* downloaded row was emptied by hand
UserReports ==
    { << [data_id |-> <<"62582">>, titulo |-> EMato, autor |-> WilsonAlvaiade,
          audio_url |-> Empty, pasta |-> <<"W">>,
          nome_arquivo |-> <<"e", "-", "m", "a", "t", "o", "_", "62582", ".mp3">>,
          data_download |-> Strftime(1)] >> }

Roots == {"musics", "musics2"}

\* one download attempt (lines 219-234):
\*   "ok"      the body is streamed and written
\*   "conn"    requests.get raises ConnectionError / Timeout
\*   "http"    raise_for_status raises HTTPError
\*   "stream"  iter_content raises ChunkedEncodingError after open()
\*   "write"   f.write raises OSError after open()
Outcomes == {"ok", "conn", "http", "stream", "write"}

\* line 232: except requests.RequestException
CaughtConnectionErrorOnly(outcome) == outcome = "conn"
Caught(outcome) == outcome \in {"conn", "http", "stream"}

\* lines 227-229: open(filepath, "wb") has run for these outcomes
FileOpened(outcome) == outcome \in {"ok", "stream", "write"}

\* line 187: df["audio_url"].notna() & (df["audio_url"] != "")
HasAudioNotNaOnly(row) == ~IsNa(row.audio_url)
HasAudio(row) == ~IsNa(row.audio_url) /\ row.audio_url # Empty

\* line 214: os.path.exists(filepath)
PathExistsNever(path, disk) == FALSE
PathExists(path, disk) == path \in DOMAIN disk

\* lines 236-240
AnnotateIntoTitleColumn(row, nome_pasta, nome_arquivo_final, download_status, day) ==
    [row EXCEPT !.pasta = nome_pasta,
                !.titulo = nome_arquivo_final,
                !.data_download = IF download_status THEN Strftime(day) ELSE @]
AnnotateOnSuccessOnly(row, nome_pasta, nome_arquivo_final, download_status, day) ==
    IF download_status
    THEN [row EXCEPT !.pasta = nome_pasta, !.nome_arquivo = nome_arquivo_final,
                     !.data_download = Strftime(day)]
    ELSE row
Annotate(row, nome_pasta, nome_arquivo_final, download_status, day) ==
    [row EXCEPT !.pasta = nome_pasta,
                !.nome_arquivo = nome_arquivo_final,
                !.data_download = IF download_status THEN Strftime(day) ELSE @]

(***************************************************************************)
(* The download stage, _download_and_audit_dataframe, one row at a time.   *)
(***************************************************************************)
NoCaller == [kind |-> "none", save |-> FALSE]
NoRun == [root |-> "none", rows |-> {}]

\* The longer the collection, the fewer operations the model follows it through:
\* one row through MaxRuns operations, each further row through one fewer, and at
\* least one.
RunLimit == IF Len(dados) > MaxRuns THEN 1 ELSE MaxRuns + 1 - Len(dados)

Pending == {i \in 1..Len(df) : status[i] = "pending"}

\* lines 183-188: the audit columns are created when missing, the rows with an
\* audio_url are selected
EnterStage(frame, root, kind, save) ==
    /\ df' = [i \in 1..Len(frame) |->
                [c \in DOMAIN frame[i] |->
                    IF c \in AuditColumns /\ frame[i][c] = NoCol THEN NaN
                    ELSE frame[i][c]]]
    /\ entry' = frame
    /\ status' = [i \in 1..Len(frame) |-> IF HasAudio(frame[i]) THEN "pending" ELSE "skip"]
    /\ output_dir' = root
    /\ dirs' = dirs \cup {[root |-> root, pasta |-> Empty]}
    /\ caller' = [kind |-> kind, save |-> save]
    /\ files0' = files
    /\ dirs0' = dirs \cup {[root |-> root, pasta |-> Empty]}
    /\ requests' = <<>>
    /\ exc' = "none"
    /\ runs' = runs + 1
    /\ pc' = "stage"

\* download_from_playlist / download_from_author, lines 538-546 and 597-604:
\* a scraper built on `root` extracts the records and enters the stage
DownloadFromExtractor(root, save_report) ==
    /\ pc \in {"idle", "raised"}
    /\ dados # <<>>
    /\ runs < RunLimit
    /\ EnterStage(DataFrameOf(dados), root, "live", save_report)
    /\ UNCHANGED <<dados, files, reports, today, prev, parseVars, appVars, extractVars, reportVars>>

\* download_from_csv, lines 486-494
DownloadFromCsv(csv, root) ==
    /\ pc \in {"idle", "raised"}
    /\ runs < RunLimit
    /\ EnterStage(ReadCsv(csv), root, "csv", TRUE)
    /\ UNCHANGED <<dados, files, reports, today, prev, parseVars, appVars, extractVars, reportVars>>

\* lines 190-240: one iteration of the loop over df_com_audio
ProcessRow(outcome) ==
    /\ pc = "stage"
    /\ Pending # {}
    /\ LET index == CHOOSE i \in Pending : \A j \in Pending : i <= j
           row == df[index]
           nome_pasta == NomePasta(row.autor)
           nome_arquivo_final == NomeArquivo(row.titulo, row.data_id)
           filepath == FilePath(output_dir, nome_pasta, nome_arquivo_final)
           content == [url |-> Str(row.audio_url), complete |-> outcome = "ok"]
       IN  /\ dirs' = dirs \cup {[root |-> output_dir, pasta |-> nome_pasta]}
           /\ IF PathExists(filepath, files)
              THEN /\ df' = [df EXCEPT ![index] =
                                Annotate(row, nome_pasta, nome_arquivo_final, TRUE, today)]
                   /\ status' = [status EXCEPT ![index] = "exists"]
                   /\ UNCHANGED <<files, requests, exc, pc>>
              ELSE /\ requests' = Append(requests,
                                    [index |-> index, path |-> filepath, outcome |-> outcome])
                   /\ files' = IF FileOpened(outcome)
                               THEN (filepath :> content) @@ files ELSE files
                   /\ IF outcome = "ok" \/ Caught(outcome)
                      THEN /\ df' = [df EXCEPT ![index] =
                                        Annotate(row, nome_pasta, nome_arquivo_final,
                                                 outcome = "ok", today)]
                           /\ status' = [status EXCEPT ![index] =
                                            IF outcome = "ok" THEN "ok" ELSE "failed"]
                           /\ UNCHANGED <<exc, pc>>
                      ELSE /\ exc' = IF outcome = "write" THEN "OSError" ELSE "RequestException"
                           /\ pc' = "raised"
                           /\ status' = [status EXCEPT ![index] = "raised"]
                           /\ UNCHANGED df
    /\ UNCHANGED <<dados, entry, caller, output_dir, files0, dirs0, reports, today, runs, prev,
                   parseVars, appVars, extractVars, reportVars>>

\* line 242 and the caller's report: lines 548-557, 606-618 (reindex to
\* OUTPUT_COLUMNS, to_csv) or 496-501 (download_from_csv)
ReturnAndReport ==
    /\ pc = "stage"
    /\ Pending = {}
    /\ reports' = IF caller.save THEN reports \cup {ToCsv(df)} ELSE reports
    /\ prev' = [root |-> output_dir,
                rows |-> {Meta(df[i].data_id, df[i].titulo, df[i].autor, df[i].audio_url) :
                            i \in {j \in 1..Len(df) : status[j] \in {"ok", "exists"}}}]
    /\ pc' = "idle"
    /\ df' = <<>>
    /\ entry' = <<>>
    /\ status' = <<>>
    /\ requests' = <<>>
    /\ files0' = <<>>
    /\ dirs0' = {}
    /\ caller' = NoCaller
    /\ output_dir' = "none"
    /\ UNCHANGED <<dados, files, dirs, exc, today, runs, parseVars, appVars, extractVars, reportVars>>

\* the clock of datetime.now() passes midnight
AdvanceDay ==
    /\ today < MaxDay
    /\ today' = today + 1
    /\ UNCHANGED <<dados, df, entry, pc, caller, output_dir, status, files, files0,
                   dirs, dirs0, requests, exc, reports, runs, prev, parseVars, appVars, extractVars, reportVars>>

InitStage ==
    /\ df = <<>>
    /\ entry = <<>>
    /\ pc = "idle"
    /\ caller = NoCaller
    /\ output_dir = "none"
    /\ status = <<>>
    /\ files = <<>>
    /\ files0 = <<>>
    /\ dirs = {}
    /\ dirs0 = {}
    /\ requests = <<>>
    /\ exc = "none"
    /\ reports = {}
    /\ today = 1
    /\ runs = 0
    /\ prev = NoRun

InitParse ==
    /\ track = [play |-> "none"]
    /\ lookup = "none"
    /\ parsed = [data_id |-> <<"<absent>">>]
    /\ parseExc = "none"

\* no extraction has started
InitExtract ==
    /\ extractOp = "none"
    /\ extractPc = "idle"
    /\ next_page_url = 0
    /\ all_songs_data = <<>>
    /\ fetched = <<>>
    /\ extractExc = "none"
    /\ limit = 0

\* no report operation has run
NoOp ==
    [op |-> "none", n |-> 0, written |-> [dir |-> "none", name |-> <<>>], before |-> {},
     inputs |-> <<>>, exc |-> "none", at |-> 0]
NoCall == [dir |-> "<no call>", name |-> <<>>]
InitReports ==
    /\ csv_files = <<>>
    /\ clock = 1
    /\ ret = NoCall
    /\ last = NoOp

\* app.py, lines 14-58: the page as it is first drawn
InitApp ==
    st = [search_type |-> "Playlist", input_url |-> Empty, input_id |-> Empty,
          save_report |-> TRUE, report_format_option |-> "XLSX (Excel)",
          shown |-> "none", caught |-> "none"]

Init ==
    /\ dados \in {d \in SeqsUpTo(RecordSamples, MaxRecords) : d # <<>>}
    /\ InitStage
    /\ InitParse
    /\ InitExtract
    /\ InitApp
    /\ InitReports

Next ==
    \/ \E root \in Roots, save_report \in BOOLEAN : DownloadFromExtractor(root, save_report)
    \/ \E csv \in reports \cup UserReports, root \in Roots : DownloadFromCsv(csv, root)
    \/ \E outcome \in Outcomes : ProcessRow(outcome)
    \/ ReturnAndReport
    \/ AdvanceDay

Spec == Init /\ [][Next]_vars

(***************************************************************************)
(* The track parser, _parse_track_data.                                    *)
(*                                                                         *)
(* A track fragment is described by the sub-elements it holds:             *)
(*   play        "none": no .play-bttn element; "no_attr": the element has *)
(*               no data-id attribute; "empty": data-id=""; "id"           *)
(*   titulo      "none": no ".track-name a" element; otherwise its text    *)
(*   href        "none": the title link has no href; otherwise the href    *)
(*   autores, interpretes   the texts of the author and performer links    *)
(*   disco, ano  "none" or the text of the element                         *)
(*   gravacao, lancamento   "none": no label; "no_sibling": the label has  *)
(*               no following div; otherwise the text of that div          *)
(***************************************************************************)
Absent == <<"<absent>">>
NoSibling == <<"<no sibling>">>
TituloDesconhecido == <<"Título Desconhecido">>
TrackId == <<"62582">>

Fragments ==
    [play : {"none", "no_attr", "empty", "id"},
     titulo : {Absent, <<"é", " ", "m", "a", "t", "o">>, <<" ", "a", " ">>},
     href : {Absent, <<"/fonograma/62582">>},
     autores : {<<>>, <<<<"W">>>>, <<<<"W">>, <<" ", "A">>>>},
     interpretes : {<<>>, <<<<"O">>>>},
     disco : {Absent, <<"Odeon 12071">>},
     ano : {Absent, <<"1941">>},
     gravacao : {Absent, NoSibling, <<"13 Outubro 1941">>},
     lancamento : {Absent, NoSibling, <<"Dezembro 1941">>}]

\* " / ".join(texts), each text stripped
RECURSIVE JoinAuthors(_)
JoinAuthors(texts) ==
    IF texts = <<>> THEN <<>>
    ELSE IF Len(texts) = 1 THEN Strip(texts[1], Whitespace)
    ELSE Strip(texts[1], Whitespace) \o AuthorSeparator \o JoinAuthors(Tail(texts))

\* what the content-detail request of lines 133-140 can meet:
\*   "ok"          json_data["audio"][0]["contentUrl"][0]["@value"] is a URL
\*   "null_value"  that "@value" is null
\*   "conn", "http"   requests.get / raise_for_status raises
\*   "not_json"    response.json() raises requests.JSONDecodeError
\*   "key_missing" a key of the path is missing (KeyError)
\*   "empty_list"  "audio" or "contentUrl" is an empty list (IndexError)
\*   "audio_null"  "audio" is null or not a list (TypeError)
Lookups == {"ok", "null_value", "conn", "http", "not_json", "key_missing",
            "empty_list", "audio_null"}

\* line 141: except (requests.RequestException, KeyError, IndexError)
LookupCaught(l) == l \in {"conn", "http", "not_json", "key_missing", "empty_list"}

\* lines 93-94
DataIdOf(t) ==
    CASE t.play = "id" -> TrackId
      [] t.play = "empty" -> Empty
      [] OTHER -> None

\* lines 113-127: label.find_next_sibling("div").text.strip()
LabelRaises(t) == t.gravacao = NoSibling \/ t.lancamento = NoSibling

TextOrEmpty(v) == IF v = Absent THEN Empty ELSE Strip(v, Whitespace)

\* lines 131-144
AudioUrlOf(l) ==
    CASE l = "ok" -> Url1
      [] l = "null_value" -> None
      [] OTHER -> Empty

\* lines 146-157
RecordOf(t, l) ==
    [data_id |-> DataIdOf(t),
     titulo |-> IF t.titulo = Absent THEN TituloDesconhecido
                ELSE TitleCase(Strip(t.titulo, Whitespace)),
     autor |-> JoinAuthors(t.autores),
     interprete |-> JoinAuthors(t.interpretes),
     disco |-> TextOrEmpty(t.disco),
     ano_lancamento_disco |-> TextOrEmpty(t.ano),
     data_gravacao |-> TextOrEmpty(t.gravacao),
     data_lancamento |-> TextOrEmpty(t.lancamento),
     fonte_url |-> IF t.titulo = Absent \/ t.href = Absent THEN Empty ELSE t.href,
     audio_url |-> AudioUrlOf(l)]

Unparsed == [data_id |-> Absent]

\* _parse_track_data(track), lines 93-157
ParseTrackData(l) ==
    /\ parseExc = "none"
    /\ parsed = Unparsed
    /\ LET issued == ~LabelRaises(track) /\ DataIdOf(track) \notin {None, Empty}
       IN  /\ lookup' = IF issued THEN l ELSE "none"
           /\ l = "none" <=> ~issued
           /\ IF LabelRaises(track)
              THEN /\ parseExc' = "AttributeError"
                   /\ parsed' = parsed
              ELSE IF issued /\ l # "ok" /\ l # "null_value" /\ ~LookupCaught(l)
              THEN /\ parseExc' = "TypeError"
                   /\ parsed' = parsed
              ELSE /\ parseExc' = "none"
                   /\ parsed' = RecordOf(track, IF issued THEN l ELSE "none")
    /\ UNCHANGED <<track, stageVars, extractVars, reportVars, appVars>>

InitParser ==
    /\ dados = <<>>
    /\ InitStage
    /\ track \in Fragments
    /\ lookup = "none"
    /\ parsed = Unparsed
    /\ parseExc = "none"
    /\ InitExtract
    /\ InitApp
    /\ InitReports

NextParser == \E l \in Lookups \cup {"none"} : ParseTrackData(l)

SpecParser == InitParser /\ [][NextParser]_vars

(***************************************************************************)
(* The extractors, extract_playlist_data and extract_author_data.          *)
(*                                                                         *)
(* A response to a tracklist or author page request is                     *)
(*   status  "ok" | "conn" (requests.get raises) | "http" (raise_for_status *)
(*           raises)                                                       *)
(*   tracks  the div.track fragments of the page, each with what its       *)
(*           content-detail request meets                                  *)
(*   next    "link": a Next anchor with an href; "no_href": a Next anchor  *)
(*           without href; "none": no Next anchor                          *)
(***************************************************************************)
MaxPages == 3

GoodTrack ==
    [play |-> "id", titulo |-> <<"é", " ", "m", "a", "t", "o">>,
     href |-> <<"/fonograma/62582">>, autores |-> <<<<"W">>, <<" ", "A">>>>,
     interpretes |-> <<<<"O">>>>, disco |-> <<"Odeon 12071">>, ano |-> <<"1941">>,
     gravacao |-> <<"13 Outubro 1941">>, lancamento |-> <<"Dezembro 1941">>]
OtherTrack == [GoodTrack EXCEPT !.titulo = <<" ", "a", " ">>, !.autores = <<>>]
NoPlayTrack == [GoodTrack EXCEPT !.play = "none", !.titulo = Absent]
NoSiblingTrack == [GoodTrack EXCEPT !.gravacao = NoSibling]

TrackOf(t, l) == [fragment |-> t, lookup |-> l]

PageTracks ==
    { <<>>,
      <<TrackOf(GoodTrack, "ok")>>,
      <<TrackOf(GoodTrack, "ok"), TrackOf(OtherTrack, "conn")>>,
      <<TrackOf(OtherTrack, "null_value")>>,
      <<TrackOf(GoodTrack, "http"), TrackOf(OtherTrack, "key_missing")>>,
      <<TrackOf(OtherTrack, "empty_list")>>,
      <<TrackOf(NoPlayTrack, "none"), TrackOf(GoodTrack, "not_json")>>,
      <<TrackOf(GoodTrack, "audio_null"), TrackOf(OtherTrack, "ok")>>,
      <<TrackOf(GoodTrack, "ok"), TrackOf(NoSiblingTrack, "ok")>> }

Responses ==
    [status : {"conn", "http"}, tracks : {<<>>}, next : {"none"}]
      \cup [status : {"ok"}, tracks : PageTracks, next : {"none", "no_href", "link"}]

\* lines 291 and 369: except requests.RequestException
PageFetchCaughtConnectionOnly(outcome) == outcome = "conn"
PageFetchCaught(outcome) == outcome \in {"conn", "http"}

\* lines 132-140: the content-detail request is made only for a truthy data_id
LookupIssued(t) == DataIdOf(t) \notin {None, Empty}

\* the exception _parse_track_data(track) raises, "none" if it returns
ParseRaises(tr) ==
    IF LabelRaises(tr.fragment) THEN "AttributeError"
    ELSE IF /\ LookupIssued(tr.fragment)
            /\ tr.lookup \notin {"ok", "null_value"}
            /\ ~LookupCaught(tr.lookup)
         THEN "TypeError"
         ELSE "none"

\* the record _parse_track_data(track) returns
ParseReturns(tr) ==
    RecordOf(tr.fragment, IF LookupIssued(tr.fragment) THEN tr.lookup ELSE "none")

\* the tracks parsed before the first one whose parse raises (all if none raises)
RECURSIVE ParsedBeforeRaise(_)
ParsedBeforeRaise(tracks) ==
    IF tracks = <<>> \/ ParseRaises(Head(tracks)) # "none" THEN <<>>
    ELSE <<ParseReturns(Head(tracks))>> \o ParsedBeforeRaise(Tail(tracks))

\* the exception of the first track whose parse raises, "none" if none does
RECURSIVE FirstRaise(_)
FirstRaise(tracks) ==
    IF tracks = <<>> THEN "none"
    ELSE IF ParseRaises(Head(tracks)) # "none" THEN ParseRaises(Head(tracks))
    ELSE FirstRaise(Tail(tracks))

\* line 363: next_page_tag and next_page_tag.has_attr("href")
FollowsNext(response) == response.next = "link"

\* line 345-351: a page without track fragments ends the search
EndsSearch(response) == response.tracks = <<>>

\* line 245: limit: int = 500
DefaultLimit == 500

\* the limits a caller passes: the default, and one smaller than a tracklist
Limits == {1, DefaultLimit}

\* extract_playlist_data, lines 277-295: `lim` goes into the URL of the request
\* (line 277) and nowhere else; every fragment of the response is parsed (line 289)
ExtractPlaylistData(lim, response) ==
    /\ extractPc = "idle"
    /\ extractOp' = "playlist"
    /\ limit' = lim
    /\ fetched' = <<response>>
    /\ next_page_url' = next_page_url
    /\ IF response.status # "ok"
       THEN IF PageFetchCaught(response.status)
            THEN /\ dados' = <<>>
                 /\ extractPc' = "returned"
                 /\ UNCHANGED <<all_songs_data, extractExc>>
            ELSE /\ extractExc' = "RequestException"
                 /\ extractPc' = "raised"
                 /\ UNCHANGED <<all_songs_data, dados>>
       ELSE IF FirstRaise(response.tracks) # "none"
            THEN /\ extractExc' = FirstRaise(response.tracks)
                 /\ extractPc' = "raised"
                 /\ UNCHANGED <<all_songs_data, dados>>
            ELSE /\ all_songs_data' = ParsedBeforeRaise(response.tracks)
                 /\ dados' = ParsedBeforeRaise(response.tracks)
                 /\ extractPc' = "returned"
                 /\ UNCHANGED extractExc
    /\ UNCHANGED <<df, entry, pc, caller, output_dir, status, files, files0, dirs, dirs0,
                   requests, exc, reports, today, runs, prev, parseVars, appVars, reportVars>>

\* extract_author_data, lines 329-337: up to the while loop
ExtractAuthorData ==
    /\ extractPc = "idle"
    /\ extractOp' = "author"
    /\ extractPc' = "loop"
    /\ next_page_url' = 1
    /\ all_songs_data' = <<>>
    /\ UNCHANGED <<fetched, extractExc, limit, stageVars, parseVars, appVars, reportVars>>

\* extract_author_data, lines 338-373: one iteration of the while loop, and the
\* return when the loop ends
AuthorPage(response) ==
    /\ extractPc = "loop"
    /\ next_page_url # 0
    /\ Len(fetched) < MaxPages
    /\ fetched' = Append(fetched, response)
    /\ extractOp' = extractOp
    /\ limit' = limit
    /\ IF response.status # "ok"
       THEN IF PageFetchCaught(response.status)
            THEN /\ dados' = all_songs_data
                 /\ extractPc' = "returned"
                 /\ UNCHANGED <<all_songs_data, next_page_url, extractExc>>
            ELSE /\ extractExc' = "RequestException"
                 /\ extractPc' = "raised"
                 /\ UNCHANGED <<all_songs_data, next_page_url, dados>>
       ELSE IF EndsSearch(response)
            THEN /\ dados' = all_songs_data
                 /\ extractPc' = "returned"
                 /\ UNCHANGED <<all_songs_data, next_page_url, extractExc>>
       ELSE IF FirstRaise(response.tracks) # "none"
            THEN /\ all_songs_data' = all_songs_data \o ParsedBeforeRaise(response.tracks)
                 /\ extractExc' = FirstRaise(response.tracks)
                 /\ extractPc' = "raised"
                 /\ UNCHANGED <<next_page_url, dados>>
       ELSE /\ all_songs_data' = all_songs_data \o ParsedBeforeRaise(response.tracks)
            /\ UNCHANGED extractExc
            /\ IF FollowsNext(response)
               THEN /\ next_page_url' = next_page_url + 1
                    /\ extractPc' = "loop"
                    /\ dados' = dados
               ELSE /\ next_page_url' = 0
                    /\ extractPc' = "returned"
                    /\ dados' = all_songs_data \o ParsedBeforeRaise(response.tracks)
    /\ UNCHANGED <<df, entry, pc, caller, output_dir, status, files, files0, dirs, dirs0,
                   requests, exc, reports, today, runs, prev, parseVars, appVars, reportVars>>

InitExtractor ==
    /\ dados = <<>>
    /\ InitStage
    /\ InitParse
    /\ InitExtract
    /\ InitApp
    /\ InitReports

NextExtractor ==
    \/ \E lim \in Limits, response \in Responses : ExtractPlaylistData(lim, response)
    \/ ExtractAuthorData
    \/ \E response \in Responses : AuthorPage(response)

SpecExtractor == InitExtractor /\ [][NextExtractor]_vars

(***************************************************************************)
(* The workflow of download_from_playlist and download_from_author on one  *)
(* scraper: the extraction, then the download stage over what it returned. *)
(***************************************************************************)
\* a workflow that hands the records to the stage as the pages come in
StartDownloadsWhileExtracting(root, save_report) ==
    /\ extractPc \in {"loop", "returned"}
    /\ pc = "idle"
    /\ prev = NoRun
    /\ all_songs_data # <<>>
    /\ EnterStage(DataFrameOf(all_songs_data), root, "live", save_report)
    /\ UNCHANGED <<dados, files, reports, today, prev, parseVars, appVars, extractVars, reportVars>>

\* lines 539-546 and 597-604: the extractor has returned dados_musicas; an empty
\* list ends the operation (lines 541-543, 599-601), any other is made a DataFrame
\* and handed to _download_and_audit_dataframe
StartDownloads(root, save_report) ==
    /\ extractPc = "returned"
    /\ pc = "idle"
    /\ prev = NoRun
    /\ IF dados = <<>>
       THEN /\ prev' = [root |-> root, rows |-> {}]
            /\ dirs' = dirs \cup {[root |-> root, pasta |-> Empty]}
            /\ UNCHANGED <<dados, df, entry, pc, caller, output_dir, status, files, files0,
                           dirs0, requests, exc, reports, today, runs,
                           parseVars, appVars, extractVars, reportVars>>
       ELSE /\ EnterStage(DataFrameOf(dados), root, "live", save_report)
            /\ UNCHANGED <<dados, files, reports, today, prev,
                           parseVars, appVars, extractVars, reportVars>>

InitWorkflow ==
    /\ dados = <<>>
    /\ InitStage
    /\ InitParse
    /\ InitExtract
    /\ InitApp
    /\ InitReports

NextWorkflow ==
    \/ \E response \in Responses : ExtractPlaylistData(DefaultLimit, response)
    \/ ExtractAuthorData
    \/ \E response \in Responses : AuthorPage(response)
    \/ \E save_report \in BOOLEAN : StartDownloads("musics", save_report)
    \/ \E outcome \in {"ok", "http"} : ProcessRow(outcome)
    \/ ReturnAndReport

SpecWorkflow == InitWorkflow /\ [][NextWorkflow]_vars

(***************************************************************************)
(* The folder and file names over every title of a bounded alphabet: one   *)
(* row, downloaded into one root.                                          *)
(***************************************************************************)
AuthorSamples == {Empty, WilsonAlvaiade, <<"W", "*">>}

\* author texts a page can carry: the parent-directory name, a name made only of
\* the characters line 197 removes, and such a name as the first of two authors
DotDot == <<".", ".">>
PathLikeAuthors == {DotDot, <<"?">>, <<"*", " ", "/", " ", "A">>}

InitNames ==
    /\ \/ \E titulo \in SeqsUpTo(TitleChars, MaxTitleLen) \cup {EMato},
             autor \in AuthorSamples :
               dados = <<Meta(TrackId, titulo, autor, Url1)>>
       \/ \E autor \in PathLikeAuthors : dados = <<Meta(TrackId, EMato, autor, Url1)>>
    /\ InitStage
    /\ InitParse
    /\ InitExtract
    /\ InitApp
    /\ InitReports

NextNames ==
    \/ DownloadFromExtractor("musics", FALSE)
    \/ \E outcome \in {"ok", "http"} : ProcessRow(outcome)
    \/ ReturnAndReport

SpecNames == InitNames /\ [][NextNames]_vars

(***************************************************************************)
(* The report files.                                                       *)
(*                                                                         *)
(* A table (a DataFrame, or the CSV text of a report) is its columns in    *)
(* order and its rows, each row a function from the columns to cells.      *)
(***************************************************************************)
\* config.py, lines 18-33
OUTPUT_COLUMNS ==
    <<"data_id", "titulo", "interprete", "autor", "disco", "ano_lancamento_disco",
      "data_gravacao", "data_lancamento", "fonte_url", "audio_url",
      "pasta", "nome_arquivo", "data_download">>

\* the keys of the dict _parse_track_data returns, lines 146-157
ParserColumns ==
    <<"data_id", "titulo", "autor", "interprete", "disco", "ano_lancamento_disco",
      "data_gravacao", "data_lancamento", "fonte_url", "audio_url">>

\* the order in which the stage creates the audit columns, line 183
AuditColumnOrder == <<"pasta", "nome_arquivo", "data_download">>

Range(seq) == {seq[i] : i \in DOMAIN seq}

\* pd.DataFrame(dados_musicas): the columns are the keys of the records
DataFrame(d) == [cols |-> ParserColumns, rows |-> d]

\* df.reindex(columns=...): the named columns in the named order, NaN where the
\* frame has no such column
Reindex(t, columns) ==
    [cols |-> columns,
     rows |-> [i \in DOMAIN t.rows |->
                 [c \in Range(columns) |->
                     IF c \in DOMAIN t.rows[i] THEN t.rows[i][c] ELSE NaN]]]

\* df.to_csv(path, index=False) and pd.read_csv(path, dtype=COLUMN_DTYPES)
ToCsvTable(t) == [cols |-> t.cols, rows |-> ToCsv(t.rows)]
ReadCsvTable(f) == [cols |-> f.cols, rows |-> ReadCsv(f.rows)]

\* lines 183-185: a missing audit column is appended, holding NaN
EnsureAudit(t) ==
    [cols |-> t.cols \o SelectSeq(AuditColumnOrder, LAMBDA c : c \notin Range(t.cols)),
     rows |-> [i \in DOMAIN t.rows |->
                 [c \in Range(t.cols) \cup AuditColumns |->
                     IF c \in DOMAIN t.rows[i] THEN t.rows[i][c] ELSE NaN]]]

\* lines 190-240 over all rows of the frame: the annotated rows, the audio files
\* and folders after the loop, the paths an audio request was issued for, and
\* whether the loop was left by an exception
RECURSIVE AuditRows(_, _, _, _, _, _)
AuditRows(rows, fs, ds, root, outcome, day) ==
    IF rows = <<>>
    THEN [rows |-> <<>>, files |-> fs, dirs |-> ds, requests |-> <<>>, raised |-> FALSE]
    ELSE LET row == Head(rows)
             nome_pasta == NomePasta(row.autor)
             nome_arquivo_final == NomeArquivo(row.titulo, row.data_id)
             filepath == FilePath(root, nome_pasta, nome_arquivo_final)
             content == [url |-> Str(row.audio_url), complete |-> outcome = "ok"]
             ds2 == ds \cup {[root |-> root, pasta |-> nome_pasta]}
             fs2 == IF FileOpened(outcome) THEN (filepath :> content) @@ fs ELSE fs
             Rest(r, f, d, req) ==
                LET rest == AuditRows(Tail(rows), f, d, root, outcome, day)
                IN  [rest EXCEPT !.rows = <<r>> \o @, !.requests = req \o @]
         IN  IF ~HasAudio(row) THEN Rest(row, fs, ds, <<>>)
             ELSE IF PathExists(filepath, fs)
             THEN Rest(Annotate(row, nome_pasta, nome_arquivo_final, TRUE, day), fs, ds2,
                       <<>>)
             ELSE IF outcome = "ok" \/ Caught(outcome)
             THEN Rest(Annotate(row, nome_pasta, nome_arquivo_final, outcome = "ok", day),
                       fs2, ds2, <<filepath>>)
             ELSE [rows |-> rows, files |-> fs2, dirs |-> ds2, requests |-> <<filepath>>,
                   raised |-> TRUE]

\* _download_and_audit_dataframe(df), lines 183-242, as one step
Audit(t, fs, ds, root, outcome, day) ==
    LET run == AuditRows(EnsureAudit(t).rows, fs,
                         ds \cup {[root |-> root, pasta |-> Empty]}, root, outcome, day)
    IN  [table |-> [cols |-> EnsureAudit(t).cols, rows |-> run.rows],
         files |-> run.files, dirs |-> run.dirs, requests |-> run.requests,
         raised |-> run.raised]

\* pd.concat(all_dfs, ignore_index=True): the columns in order of first appearance
RECURSIVE ConcatCols(_)
ConcatCols(tables) ==
    IF tables = <<>> THEN <<>>
    ELSE LET rest == ConcatCols(Tail(tables))
         IN  Head(tables).cols \o SelectSeq(rest, LAMBDA c : c \notin Range(Head(tables).cols))

RECURSIVE ConcatRows(_)
ConcatRows(tables) ==
    IF tables = <<>> THEN <<>> ELSE Head(tables).rows \o ConcatRows(Tail(tables))

Concat(tables) == Reindex([cols |-> <<>>, rows |-> ConcatRows(tables)], ConcatCols(tables))

\* drop_duplicates(subset=["data_id"], keep="first"): missing values count as equal
DropDuplicates(t) ==
    LET kept == SelectSeq([i \in DOMAIN t.rows |-> [row |-> t.rows[i], at |-> i]],
                          LAMBDA r : \A j \in DOMAIN t.rows :
                              j < r.at => t.rows[j].data_id # r.row.data_id)
    IN  [cols |-> t.cols, rows |-> [k \in DOMAIN kept |-> kept[k].row]]

\* datetime.now().strftime("%Y%m%d_%H%M%S"): one stamp per second
Timestamp(second) == <<ToString(second)>>

\* a report path: the directory and the file name, the name a sequence of text
\* pieces ending with the suffix
ReportPath(dir, name) == [dir |-> dir, name |-> name]
NoPath == [dir |-> "none", name |-> <<>>]

\* lines 448-450 and 608-610
SafeAuthorName(author_name) ==
    Lower([i \in 1..Len(RemoveChars(author_name, IllegalPathChars)) |->
              IF RemoveChars(author_name, IllegalPathChars)[i] = " " THEN "_"
              ELSE RemoveChars(author_name, IllegalPathChars)[i]])

\* line 407 and line 451
PlaylistMetadataName(playlist_id) == <<"playlist_">> \o playlist_id \o <<"_metadata", ".csv">>
AuthorMetadataName(author_name) ==
    <<"autor_">> \o SafeAuthorName(author_name) \o <<"_metadados", ".csv">>

\* lines 549-557 and lines 607-618
PlaylistCompleteName(playlist_id, second) ==
    <<"playlist_">> \o playlist_id \o <<"_completo_">> \o Timestamp(second) \o <<".csv">>
AuthorCompleteName(author_name, second) ==
    <<"autor_">> \o SafeAuthorName(author_name) \o <<"_completo_">> \o Timestamp(second)
        \o <<".csv">>

\* lines 496-499: f"{p.stem}_{timestamp}{p.suffix}"
AuditName(name, second) ==
    SubSeq(name, 1, Len(name) - 1) \o <<"_">> \o Timestamp(second) \o <<name[Len(name)]>>

\* tools.py, lines 69-71
MergedName(second) == <<"relatorio_unificado_">> \o Timestamp(second) \o <<".csv">>

(***************************************************************************)
(* The report operations, each as one step: save_playlist_to_csv,          *)
(* save_author_to_csv, download_from_playlist, download_from_author,       *)
(* download_from_csv of the scraper built on ReportRoot, and merge_reports. *)
(* Every download attempt of one operation meets the same outcome.         *)
(***************************************************************************)
MaxOps == 2

ReportRoot == "musics"
PlaylistIds == {<<"7">>}
AuthorNames == {<<"W", " ", "A">>}

\* what the extractor of the operation returns
Extracted ==
    { <<>>,
      <<ParseReturns(TrackOf(GoodTrack, "ok"))>>,
      <<ParseReturns(TrackOf(NoPlayTrack, "none")), ParseReturns(TrackOf(OtherTrack, "ok"))>> }

\* the report files present before the first operation: two reports written by
\* earlier runs that share the id "2", a report edited by hand (columns reordered and
\* removed, two rows without id), a table without data_id, a file that is not CSV
ReportRow(id, titulo) ==
    [ParseReturns(TrackOf(GoodTrack, "ok")) EXCEPT !.data_id = id, !.titulo = titulo]
FileA ==
    ToCsvTable(Reindex(DataFrame(<<ReportRow(<<"1">>, <<"A">>), ReportRow(<<"2">>, <<"B">>)>>),
                       OUTPUT_COLUMNS))
FileB ==
    ToCsvTable(Reindex(DataFrame(<<ReportRow(<<"2">>, <<"C">>), ReportRow(<<"3">>, <<"D">>)>>),
                       OUTPUT_COLUMNS))
FileU ==
    [cols |-> <<"titulo", "data_id", "autor", "audio_url">>,
     rows |-> << [titulo |-> <<"E">>, data_id |-> Empty, autor |-> <<"W">>, audio_url |-> Url1],
                 [titulo |-> <<"F">>, data_id |-> Empty, autor |-> <<"W">>, audio_url |-> Empty] >>]
FileK ==
    [cols |-> <<"titulo", "autor">>,
     rows |-> << [titulo |-> <<"G">>, autor |-> <<"W">>] >>]
Corrupt == [cols |-> <<"<not CSV>">>, rows |-> <<>>]

PathA == ReportPath("in", <<"a", ".csv">>)
PathB == ReportPath("in", <<"b", ".csv">>)
PathU == ReportPath("in", <<"u", ".csv">>)
PathK == ReportPath("in", <<"k", ".csv">>)
PathX == ReportPath("in", <<"x", ".csv">>)
PathMissing == ReportPath("in", <<"missing", ".csv">>)

InitialFiles ==
    (PathA :> FileA) @@ (PathB :> FileB) @@ (PathU :> FileU) @@ (PathK :> FileK)
        @@ (PathX :> Corrupt)

MergeInputs ==
    { <<>>, <<PathA, PathB>>, <<PathB, PathA>>, <<PathMissing, PathA>>, <<PathX>>,
      <<PathMissing>>, <<PathA, PathX, PathU>>, <<PathK>> }

\* the directories to_csv can write into
ExistingDirs == {"in", "out", ReportRoot}

\* the calls of merge_reports: every list into "out", one into a missing directory
MergeCalls ==
    {[file_paths |-> l, output_path |-> "out"] : l \in MergeInputs}
        \cup {[file_paths |-> <<PathA>>, output_path |-> "absent"]}

reportFrame == <<df, entry, pc, caller, output_dir, status, files0, dirs0, exc,
                 reports, today, runs, prev>>

Done(op, written, inputs, raised) ==
    last' = [op |-> op, n |-> last.n + 1, written |-> written, before |-> DOMAIN csv_files,
             inputs |-> inputs, exc |-> raised, at |-> clock]

\* lines 399, 440, 541 and 599: if not dados_musicas
NothingExtractedNever(d) == FALSE
NothingExtracted(d) == d = <<>>

\* save_playlist_to_csv, lines 396-412, and save_author_to_csv, lines 434-458
SaveToCsv(op, filename, d) ==
    /\ last.n < MaxOps
    /\ dados' = d
    /\ requests' = <<>>
    /\ IF NothingExtracted(d)
       THEN /\ Done(op, NoPath, <<>>, "none")
            /\ UNCHANGED <<csv_files, dirs>>
       ELSE /\ csv_files' = (ReportPath(ReportRoot, filename) :>
                                ToCsvTable(Reindex(DataFrame(d), OUTPUT_COLUMNS))) @@ csv_files
            /\ dirs' = dirs \cup {[root |-> ReportRoot, pasta |-> Empty]}
            /\ Done(op, ReportPath(ReportRoot, filename), <<>>, "none")
    /\ UNCHANGED <<files, clock, ret, reportFrame, parseVars, appVars, extractVars>>

SavePlaylistToCsv(playlist_id, d) ==
    SaveToCsv("save_playlist_to_csv", PlaylistMetadataName(playlist_id), d)

SaveAuthorToCsv(author_name, d) ==
    SaveToCsv("save_author_to_csv", AuthorMetadataName(author_name), d)

\* download_from_playlist, lines 538-563, and download_from_author, lines 597-625
DownloadAndReport(op, filename, d, outcome, save_report) ==
    /\ last.n < MaxOps
    /\ dados' = d
    /\ IF NothingExtracted(d)
       THEN /\ Done(op, NoPath, <<>>, "none")
            /\ requests' = <<>>
            /\ UNCHANGED <<csv_files, files, dirs>>
       ELSE LET run == Audit(DataFrame(d), files, dirs, ReportRoot, outcome, today)
            IN  /\ files' = run.files
                /\ dirs' = run.dirs
                /\ requests' = run.requests
                /\ IF run.raised
                   THEN /\ Done(op, NoPath, <<>>, "OSError")
                        /\ UNCHANGED csv_files
                   ELSE IF save_report
                   THEN /\ csv_files' = (ReportPath(ReportRoot, filename) :>
                                ToCsvTable(Reindex(run.table, OUTPUT_COLUMNS))) @@ csv_files
                        /\ Done(op, ReportPath(ReportRoot, filename), <<>>, "none")
                   ELSE /\ Done(op, NoPath, <<>>, "none")
                        /\ UNCHANGED csv_files
    /\ UNCHANGED <<clock, ret, reportFrame, parseVars, extractVars>>

DownloadFromPlaylist(playlist_id, d, outcome, save_report) ==
    /\ DownloadAndReport("download_from_playlist", PlaylistCompleteName(playlist_id, clock),
                         d, outcome, save_report)
    /\ UNCHANGED appVars

DownloadFromAuthor(author_name, d, outcome, save_report) ==
    /\ DownloadAndReport("download_from_author", AuthorCompleteName(author_name, clock),
                         d, outcome, save_report)
    /\ UNCHANGED appVars

\* the columns the stage reads: audio_url of every row (line 187), autor, titulo and
\* data_id of the rows it downloads (lines 194-203)
StageKeyError(t) ==
    \/ "audio_url" \notin Range(t.cols)
    \/ /\ \E i \in DOMAIN t.rows : HasAudio(t.rows[i])
       /\ ~({"autor", "titulo", "data_id"} \subseteq Range(t.cols))

\* download_from_csv, lines 486-503
DownloadFromCsvFile(input_csv_path, outcome) ==
    /\ last.n < MaxOps
    /\ IF input_csv_path \notin DOMAIN csv_files
       THEN /\ Done("download_from_csv", NoPath, <<input_csv_path>>, "none")
            /\ requests' = <<>>
            /\ UNCHANGED <<csv_files, files, dirs>>
       ELSE IF csv_files[input_csv_path] = Corrupt
       THEN /\ Done("download_from_csv", NoPath, <<input_csv_path>>, "ParserError")
            /\ requests' = <<>>
            /\ UNCHANGED <<csv_files, files, dirs>>
       ELSE IF StageKeyError(ReadCsvTable(csv_files[input_csv_path]))
       THEN /\ Done("download_from_csv", NoPath, <<input_csv_path>>, "KeyError")
            /\ requests' = <<>>
            /\ UNCHANGED <<csv_files, files, dirs>>
       ELSE LET run == Audit(ReadCsvTable(csv_files[input_csv_path]), files, dirs,
                             ReportRoot, outcome, today)
                new_filepath == ReportPath(input_csv_path.dir,
                                           AuditName(input_csv_path.name, clock))
            IN  /\ files' = run.files
                /\ dirs' = run.dirs
                /\ requests' = run.requests
                /\ IF run.raised
                   THEN /\ Done("download_from_csv", NoPath, <<input_csv_path>>, "OSError")
                        /\ UNCHANGED csv_files
                   ELSE /\ csv_files' = (new_filepath :> ToCsvTable(run.table)) @@ csv_files
                        /\ Done("download_from_csv", new_filepath, <<input_csv_path>>, "none")
    /\ UNCHANGED <<dados, clock, ret, reportFrame, parseVars, appVars, extractVars>>

\* tools.py, lines 45-55: the files that can be read, in the order of the list
Readable(file_paths) ==
    SelectSeq(file_paths, LAMBDA q : q \in DOMAIN csv_files /\ csv_files[q] # Corrupt)

\* tools.py, lines 40-42 and 57-59: nothing to merge
NothingToMergeEmptyListOnly(file_paths, all_dfs) == file_paths = <<>>
NothingToMerge(file_paths, all_dfs) == file_paths = <<>> \/ all_dfs = <<>>

\* merge_reports, tools.py, lines 40-76
MergeReports(file_paths, output_path) ==
    /\ last.n < MaxOps
    /\ requests' = <<>>
    /\ LET all_dfs == [k \in DOMAIN Readable(file_paths) |->
                          ReadCsvTable(csv_files[Readable(file_paths)[k]])]
           output_filepath == ReportPath(output_path, MergedName(clock))
       IN  IF NothingToMerge(file_paths, all_dfs)
           THEN /\ ret' = ReportPath("", <<>>)
                /\ Done("merge_reports", NoPath, file_paths, "none")
                /\ UNCHANGED csv_files
           ELSE IF "data_id" \notin Range(Concat(all_dfs).cols)
           THEN /\ Done("merge_reports", NoPath, file_paths, "KeyError")
                /\ UNCHANGED <<csv_files, ret>>
           ELSE IF output_path \notin ExistingDirs
           THEN /\ Done("merge_reports", NoPath, file_paths, "OSError")
                /\ UNCHANGED <<csv_files, ret>>
           ELSE /\ csv_files' = (output_filepath :>
                                    ToCsvTable(DropDuplicates(Concat(all_dfs)))) @@ csv_files
                /\ ret' = output_filepath
                /\ Done("merge_reports", output_filepath, file_paths, "none")
    /\ UNCHANGED <<dados, files, dirs, clock, reportFrame, parseVars, appVars, extractVars>>

\* the clock of datetime.now() passes to the next second; what matters is whether
\* two operations fall in the same second, so one tick between operations is enough
Tick ==
    /\ clock <= last.n
    /\ clock' = clock + 1
    /\ UNCHANGED <<csv_files, ret, last, stageVars, parseVars, appVars, extractVars>>

InitReporter ==
    /\ dados = <<>>
    /\ InitStage
    /\ InitParse
    /\ InitExtract
    /\ InitApp
    /\ csv_files = InitialFiles
    /\ clock = 1
    /\ ret = NoCall
    /\ last = NoOp

NextReporter ==
    \/ \E playlist_id \in PlaylistIds, d \in Extracted : SavePlaylistToCsv(playlist_id, d)
    \/ \E author_name \in AuthorNames, d \in Extracted : SaveAuthorToCsv(author_name, d)
    \/ \E playlist_id \in PlaylistIds, d \in Extracted, outcome \in {"ok", "http"} :
          DownloadFromPlaylist(playlist_id, d, outcome, TRUE)
    \/ \E author_name \in AuthorNames, d \in Extracted :
          DownloadFromAuthor(author_name, d, "ok", TRUE)
    \/ \E input_csv_path \in DOMAIN csv_files \cup {PathMissing}, outcome \in {"ok", "http"} :
          DownloadFromCsvFile(input_csv_path, outcome)
    \/ \E call \in MergeCalls : MergeReports(call.file_paths, call.output_path)
    \/ Tick

SpecReporter == InitReporter /\ [][NextReporter]_vars

(***************************************************************************)
(* The front-end, app.py. Streamlit runs the script again on every widget  *)
(* event: the messages of the run before are gone, and the handler of    *)
(* "Baixar Músicas" runs when the button was the event.                    *)
(***************************************************************************)
\* scraper.py, lines 505-507 and 565: the parameters of the two operations
PlaylistParameters == {"playlist_id", "limit", "save_report", "report_xlsx"}
AuthorParameters == {"author_name", "save_report", "report_xlsx"}

\* app.py, lines 91-96 and 98-103: the keywords of the two calls
PlaylistCallKeywords == {"playlist_id", "save_report", "report_xlsx", "report_columns"}
AuthorCallKeywords == {"author_name", "save_report", "report_xlsx", "report_columns"}

\* a call with a keyword the function has no parameter for raises TypeError
Accepts(parameters, keywords) == keywords \subseteq parameters

\* what the user types: a URL is a sequence of tokens
Digits == {"7", "247664"}
PlaylistUrls ==
    { Empty,
      <<"https://discografiabrasileira.com.br", "/playlists/", "7", "/", "samba">>,
      <<"https://discografiabrasileira.com.br", "/playlists/", "247664", "/">>,
      <<"https://discografiabrasileira.com.br", "/playlists/", "samba">>,
      <<"https://discografiabrasileira.com.br", "/autor/", "7", "/">> }
AuthorInputs == {Empty, <<"W", " ", "A">>}

\* line 66: re.search(r"/playlists/(\d+)/", input_url), group 1 or None
NoMatch == <<"<no match>">>
PlaylistIdOf(input_url) ==
    LET at == {k \in 1..(Len(input_url) - 2) :
                  /\ input_url[k] = "/playlists/"
                  /\ input_url[k + 1] \in Digits
                  /\ input_url[k + 2] = "/"}
    IN  IF at = {} THEN NoMatch
        ELSE <<input_url[(CHOOSE k \in at : \A j \in at : k <= j) + 1]>>

\* a widget event other than the button: the script runs to its end and shows no
\* message (lines 14-58); the format box is disabled without a report (line 57)
Widget(field, value) ==
    /\ field = "report_format_option" => st.save_report
    /\ field = "input_url" => st.search_type = "Playlist"
    /\ field = "input_id" => st.search_type = "Autor"
    /\ st[field] # value
    /\ st' = [st EXCEPT ![field] = value, !.shown = "none", !.caught = "none"]
    /\ UNCHANGED <<stageVars, parseVars, extractVars, reportVars>>

Show(message, caught) == st' = [st EXCEPT !.shown = message, !.caught = caught]

\* lines 60-119: the handler of the button; d and outcome are what the site
\* returns to the extraction and to the audio requests
BaixarMusicas(d, outcome) ==
    LET playlist == st.search_type = "Playlist"
        input_id == IF playlist THEN PlaylistIdOf(st.input_url) ELSE st.input_id
        save_as_xlsx == st.report_format_option = "XLSX (Excel)"
    IN  IF playlist /\ st.input_url = Empty
        THEN /\ Show("warning", "none")
             /\ UNCHANGED <<stageVars, parseVars, extractVars, reportVars>>
        ELSE IF playlist /\ input_id = NoMatch
        THEN /\ Show("error: URL", "none")
             /\ UNCHANGED <<stageVars, parseVars, extractVars, reportVars>>
        ELSE IF ~playlist /\ input_id = Empty
        THEN /\ Show("warning", "none")
             /\ UNCHANGED <<stageVars, parseVars, extractVars, reportVars>>
        ELSE IF playlist /\ Accepts(PlaylistParameters, PlaylistCallKeywords)
        THEN /\ DownloadAndReport("download_from_playlist",
                                  PlaylistCompleteName(input_id, clock), d, outcome,
                                  st.save_report)
             /\ Show(IF last'.exc = "none" THEN "success" ELSE "error", last'.exc)
        ELSE IF ~playlist /\ Accepts(AuthorParameters, AuthorCallKeywords)
        THEN /\ DownloadAndReport("download_from_author",
                                  AuthorCompleteName(input_id, clock), d, outcome,
                                  st.save_report)
             /\ Show(IF last'.exc = "none" THEN "success" ELSE "error", last'.exc)
        ELSE /\ Show("error", "TypeError")
             /\ dirs' = dirs \cup {[root |-> ReportRoot, pasta |-> Empty]}
             /\ UNCHANGED <<dados, df, entry, pc, caller, output_dir, status, files, files0,
                            dirs0, requests, exc, reports, today, runs, prev,
                            parseVars, extractVars, reportVars>>

InitFrontEnd ==
    /\ dados = <<>>
    /\ InitStage
    /\ InitParse
    /\ InitExtract
    /\ InitApp
    /\ InitReports

NextFrontEnd ==
    \/ \E search_type \in {"Playlist", "Autor"} : Widget("search_type", search_type)
    \/ \E input_url \in PlaylistUrls : Widget("input_url", input_url)
    \/ \E input_id \in AuthorInputs : Widget("input_id", input_id)
    \/ \E save_report \in BOOLEAN : Widget("save_report", save_report)
    \/ \E option \in {"XLSX (Excel)", "CSV"} : Widget("report_format_option", option)
    \/ \E d \in Extracted, outcome \in {"ok", "http"} : BaixarMusicas(d, outcome)

SpecFrontEnd == InitFrontEnd /\ [][NextFrontEnd]_vars

(***************************************************************************)
(* Properties of the download stage.                                       *)
(***************************************************************************)
InStage == pc \in {"stage", "raised"}
StageEnd == pc = "stage" /\ Pending = {}
Rows == 1..Len(df)
Judged(i) == status[i] \in {"ok", "exists", "failed"}
EntryHasUrl(i) == entry[i].audio_url \notin {Empty, NaN, None}
MetaOf(row) == Meta(row.data_id, row.titulo, row.autor, row.audio_url)
RequestsFor(i) == {k \in DOMAIN requests : requests[k].index = i}
RequestsTo(path) == {k \in DOMAIN requests : requests[k].path = path}
NetworkFailures == {"conn", "http", "stream"}

\* C1: at the end of the stage, data_download is set exactly for the rows with an
\* audio_url whose target file exists on disk.
C1_DownloadDateIffFileExists ==
    StageEnd =>
        \A i \in Rows :
            EntryHasUrl(i) =>
                (df[i].data_download # NaN <=> TargetPath(output_dir, entry[i]) \in DOMAIN files)

\* C2 as stated: whatever a download attempt meets, a failure while writing the
\* file included, the stage does not raise.
C2_StageNeverRaises == pc # "raised"

\* C2 as amended: a network failure of an attempt (connection error, non-2xx
\* status, failure while streaming) is never what ends the stage: the row is marked
\* failed and the loop goes on; only a failure writing the file (OSError) leaves the
\* stage, and a stage that ends returns the rows it was given, in their order.
C2_NetworkFailuresDoNotRaise ==
    /\ \A k \in DOMAIN requests :
          requests[k].outcome \in NetworkFailures =>
              /\ status[requests[k].index] = "failed"
              /\ pc = "raised" => k < Len(requests)
    /\ pc = "raised" => /\ exc = "OSError"
                        /\ requests # <<>>
                        /\ requests[Len(requests)].outcome = "write"
    /\ StageEnd => /\ Len(df) = Len(entry)
                   /\ \A i \in Rows : MetaOf(df[i]) = MetaOf(entry[i])
                   /\ \A i \in Rows : EntryHasUrl(i) => Judged(i)

C2_Witness ==
    /\ StageEnd
    /\ Len(requests) = 2
    /\ requests[1].outcome = "http"
    /\ requests[2].outcome = "stream"

\* C3: every file on disk holds the complete content of one successful fetch.
C3_FilesAllOrNothing == \A path \in DOMAIN files : files[path].complete

C5_OneFetchPerDistinctPath ==
    StageEnd =>
        \A i \in Rows :
            EntryHasUrl(i) =>
                LET path == TargetPath(output_dir, entry[i])
                IN  Cardinality(RequestsTo(path)) = IF path \in DOMAIN files0 THEN 0 ELSE 1

\* C5 as amended: a row is fetched at most once, and only while no file exists at
\* its target path: a path is fetched again for a later row only if every earlier
\* attempt failed before the file was opened, and never if its file existed before
\* the stage.
C5_FetchOnlyWhileFileMissing ==
    /\ \A k \in DOMAIN requests :
          /\ requests[k].path \notin DOMAIN files0
          /\ \A j \in DOMAIN requests :
                (j < k /\ requests[j].path = requests[k].path) =>
                    requests[j].outcome \in {"conn", "http"}
          /\ \A j \in DOMAIN requests : j # k => requests[j].index # requests[k].index
    /\ InStage =>
          \A i \in Rows :
              /\ Cardinality(RequestsTo(TargetPath(output_dir, entry[i]))) <=
                    Cardinality({j \in Rows : EntryHasUrl(j) /\
                        TargetPath(output_dir, entry[j]) = TargetPath(output_dir, entry[i])})
              /\ Judged(i) => (RequestsFor(i) = {} <=> status[i] = "exists")

C5_Witness ==
    /\ StageEnd
    /\ Len(requests) = 2
    /\ requests[1].path = requests[2].path
    /\ requests[2].outcome = "ok"

\* C6: a row without an audio_url is skipped: it is never requested, no file or
\* folder is created but for the rows that have one, and its audit cells keep
\* the value they had on entry (a missing value when the column did not exist).
C6_EmptyAudioUntouched ==
    InStage =>
        /\ \A i \in Rows :
              entry[i].audio_url \in {Empty, NaN, None} =>
                  /\ status[i] = "skip"
                  /\ RequestsFor(i) = {}
                  /\ \A c \in AuditColumns :
                        df[i][c] = IF entry[i][c] = NoCol THEN NaN ELSE entry[i][c]
        /\ \A path \in DOMAIN files \ DOMAIN files0 :
              \E k \in DOMAIN requests :
                  /\ requests[k].path = path
                  /\ entry[requests[k].index].audio_url \notin {Empty, NaN, None}
        /\ \A d \in dirs \ dirs0 :
              \E i \in Rows :
                  /\ entry[i].audio_url \notin {Empty, NaN, None}
                  /\ status[i] # "pending"
                  /\ d = [root |-> output_dir, pasta |-> NomePasta(entry[i].autor)]

C6_Witness ==
    /\ StageEnd
    /\ \E i, j \in Rows :
          /\ entry[i].audio_url = Empty
          /\ entry[i].pasta = NoCol
          /\ df[i].data_download = NaN
          /\ status[j] = "ok"

ClaimedFolder(autor) ==
    IF autor \in {Empty, NaN, None, NoCol} THEN AutorDesconhecido
    ELSE RemoveChars(Strip(SplitFirst(autor), Whitespace), IllegalPathChars)

C8_FolderFromFirstAuthor ==
    InStage => \A i \in Rows : Judged(i) => df[i].pasta = ClaimedFolder(entry[i].autor)

\* The slug as the claim words it: lower-case, strip the diacritics, keep
\* [a-z0-9, whitespace, hyphen], turn each run of whitespace and hyphens into one
\* hyphen.
WithoutDiacritic(c) ==
    CASE c = "é" -> "e"
      [] c = "É" -> "E"
      [] OTHER -> c

ClaimedSlugChars == {"a", "e", "m", "n", "o", "t", "w", "0", "1", " ", "-"}

RECURSIVE Hyphenate(_)
Hyphenate(s) ==
    IF s = <<>> THEN <<>>
    ELSE IF Head(s) \in {" ", "-"}
         THEN <<"-">> \o Hyphenate(LStrip(Tail(s), {" ", "-"}))
         ELSE <<Head(s)>> \o Hyphenate(Tail(s))

ClaimedSlug(titulo) ==
    Hyphenate(SelectSeq([i \in 1..Len(titulo) |-> WithoutDiacritic(LowerChar(titulo[i]))],
                        LAMBDA c : c \in ClaimedSlugChars))

ClaimedFileName(slug, data_id) == slug \o <<"_">> \o data_id \o <<".mp3">>

\* C9 as stated: the file name is slug(title)_id.mp3 with the slug as worded.
C9_FileNameSlugAsStated ==
    InStage =>
        \A i \in Rows :
            Judged(i) =>
                df[i].nome_arquivo = ClaimedFileName(ClaimedSlug(entry[i].titulo), entry[i].data_id)

\* C9 as amended: the slug is as worded and then loses its leading and trailing
\* hyphens; the file name is slug(title)_id.mp3, a function of title and id alone,
\* and "É Mato" with id 62582 gives e-mato_62582.mp3.
C9_FileNameSlugTrimmed ==
    /\ InStage =>
          \A i \in Rows :
              Judged(i) =>
                  df[i].nome_arquivo =
                      ClaimedFileName(Strip(ClaimedSlug(entry[i].titulo), {"-"}), entry[i].data_id)
    /\ NomeArquivo(EMato, <<"62582">>) = <<"e", "-", "m", "a", "t", "o", "_", "62582", ".mp3">>

C9_Witness ==
    /\ StageEnd
    /\ \E i \in Rows :
          /\ status[i] = "ok"
          /\ entry[i].titulo = <<"-", "É", " ">>
          /\ df[i].nome_arquivo = <<"e", "_", "62582", ".mp3">>

(***************************************************************************)
(* Properties of the track parser.                                         *)
(***************************************************************************)
\* C10: whatever sub-elements the fragment lacks, the parser raises nothing and
\* returns a record whose missing title is "Título Desconhecido" and whose other
\* missing texts are empty (the content-detail response being well formed).
C10_ParserTotalWithDefaults ==
    lookup # "audio_null" =>
        /\ parseExc = "none"
        /\ parsed # Unparsed =>
              /\ track.titulo = Absent => parsed.titulo = TituloDesconhecido
              /\ track.titulo = Absent => parsed.fonte_url = Empty
              /\ track.autores = <<>> => parsed.autor = Empty
              /\ track.interpretes = <<>> => parsed.interprete = Empty
              /\ track.disco = Absent => parsed.disco = Empty
              /\ track.ano = Absent => parsed.ano_lancamento_disco = Empty
              /\ track.gravacao \in {Absent, NoSibling} => parsed.data_gravacao = Empty
              /\ track.lancamento \in {Absent, NoSibling} => parsed.data_lancamento = Empty
              /\ track.play \in {"none", "no_attr"} => parsed.audio_url = Empty

(***************************************************************************)
(* Properties of the extractors.                                           *)
(***************************************************************************)
\* the track fragments of the pages fetched so far, in page and in-page order
RECURSIVE TracksOf(_)
TracksOf(responses) ==
    IF responses = <<>> THEN <<>>
    ELSE (IF Head(responses).status = "ok" THEN Head(responses).tracks ELSE <<>>)
            \o TracksOf(Tail(responses))

\* the title the record of a fragment carries
ClaimedTitle(t) ==
    IF t.titulo = Absent THEN <<"Título Desconhecido">>
    ELSE IF t.titulo = <<"é", " ", "m", "a", "t", "o">> THEN EMato
    ELSE <<"A">>

\* the records are those of the fragments, one each, in the same order
RecordsOfTracks(records, tracks) ==
    /\ Len(records) = Len(tracks)
    /\ \A j \in 1..Len(tracks) : records[j].titulo = ClaimedTitle(tracks[j].fragment)

WellFormed(tr) ==
    tr.fragment.gravacao # NoSibling /\ tr.fragment.lancamento # NoSibling

LookupFailed(tr) ==
    tr.fragment.play = "id" /\ tr.lookup \notin {"ok", "null_value"}

AllFetchedOk == \A k \in 1..Len(fetched) : fetched[k].status = "ok"

\* C11: whatever the content-detail lookup of a track meets, the parser returns the
\* record with an empty audio_url and the extraction goes on with the other tracks:
\* over pages of well-formed fragments the extractor does not raise, holds one
\* record per fragment, and the record of a failed lookup has audio_url "".
C11_LookupFailureKeepsBatch ==
    (\A p \in 1..Len(TracksOf(fetched)) : WellFormed(TracksOf(fetched)[p])) =>
        /\ extractExc = "none"
        /\ Len(all_songs_data) = Len(TracksOf(fetched))
        /\ \A p \in 1..Len(TracksOf(fetched)) :
              LookupFailed(TracksOf(fetched)[p]) => all_songs_data[p].audio_url = Empty

\* C12: the audio_url of every record the parser returns is a URL or the empty
\* string, never None, whatever the "@value" of the content-detail response is.
C12_AudioUrlNeverNull ==
    parsed # Unparsed => parsed.audio_url \notin {None, NaN}

\* C13: extract_playlist_data makes one tracklist request; when it fails the result
\* is the empty list and nothing is raised; otherwise the result holds one record per
\* track fragment of the response, in source order.
C13_PlaylistOneRequestAllRecords ==
    extractOp = "playlist" =>
        /\ Len(fetched) = 1
        /\ extractPc = "returned"
        /\ extractExc = "none"
        /\ fetched[1].status # "ok" => dados = <<>>
        /\ fetched[1].status = "ok" => RecordsOfTracks(dados, fetched[1].tracks)

\* C14: extract_author_data makes one request per page visited, visits the pages up
\* to the first one without track fragments or without a Next link, and returns the
\* records of the visited pages in page order and in-page order.
C14_AuthorPagesConcatenated ==
    (extractOp = "author" /\ extractPc \in {"returned", "raised"} /\ AllFetchedOk) =>
        /\ extractPc = "returned"
        /\ \A k \in 1..(Len(fetched) - 1) :
              fetched[k].tracks # <<>> /\ fetched[k].next = "link"
        /\ fetched[Len(fetched)].tracks = <<>> \/ fetched[Len(fetched)].next # "link"
        /\ RecordsOfTracks(dados, TracksOf(fetched))

C23_PlaylistAtMostLimit ==
    (extractOp = "playlist" /\ extractPc = "returned") => Len(dados) <= limit

\* C24: the pagination loop of extract_author_data is bounded: whatever the pages
\* and their Next links are, it has ended (returned, truncating the result) by the
\* time it has requested as many pages as the model follows it through.
C24_AuthorLoopBounded ==
    (extractOp = "author" /\ Len(fetched) >= MaxPages) => extractPc # "loop"

(***************************************************************************)
(* Properties of the workflow.                                             *)
(***************************************************************************)
\* C21: in download_from_playlist and download_from_author the metadata phase and
\* the download phase do not overlap: when an audio request is issued the extractor
\* has returned, the list holds one record per fragment of the pages fetched and
\* the stage works on that list; once the stage has been entered no tracklist or
\* author page request (and so no audio-URL lookup, made while a page is parsed)
\* is issued.
C21_PhasesDoNotOverlap ==
    [][ /\ Len(requests') > Len(requests) =>
              /\ extractPc = "returned"
              /\ dados = all_songs_data
              /\ RecordsOfTracks(dados, TracksOf(fetched))
              /\ Len(df) = Len(dados)
        /\ runs > 0 => fetched' = fetched /\ all_songs_data' = all_songs_data ]_vars

C21_Witness ==
    /\ extractOp = "author"
    /\ Len(fetched) >= 2
    /\ Len(requests) >= 2
    /\ Len(df) >= 3

(***************************************************************************)
(* Properties of the report operations on an empty extraction.             *)
(***************************************************************************)
ExtractorOps ==
    {"save_playlist_to_csv", "save_author_to_csv",
     "download_from_playlist", "download_from_author"}

\* C22: when the extraction returned no records, save_playlist_to_csv,
\* save_author_to_csv, download_from_playlist and download_from_author write no
\* report file, create no folder, write no audio file, issue no audio request and
\* return without raising.
C22_EmptyExtractionLeavesNothing ==
    [][ (last'.n = last.n + 1 /\ last'.op \in ExtractorOps /\ dados' = <<>>) =>
            /\ csv_files' = csv_files
            /\ dirs' = dirs
            /\ files' = files
            /\ requests' = <<>>
            /\ last'.written = NoPath
            /\ last'.exc = "none" ]_vars

C22_Witness ==
    /\ last.op = "download_from_author"
    /\ last.n = 2
    /\ dados = <<>>
    /\ files # <<>>
    /\ last.written = NoPath

(***************************************************************************)
(* Properties of the download stage within the workflow.                   *)
(***************************************************************************)
\* C25: the download stage changes only the audit fields: the collection keeps its
\* records, in their order, and every record, downloaded, failed or skipped, keeps
\* the value of each of the ten metadata fields.
C25_StageChangesOnlyAuditFields ==
    InStage =>
        /\ Len(df) = Len(entry)
        /\ \A i \in Rows :
              /\ Range(ParserColumns) \subseteq DOMAIN df[i]
              /\ DOMAIN df[i] = DOMAIN entry[i]
              /\ \A c \in DOMAIN entry[i] \ AuditColumns : df[i][c] = entry[i][c]

C25_Witness ==
    /\ StageEnd
    /\ \E i \in Rows : status[i] = "ok"
    /\ \E i \in Rows : status[i] = "failed"
    /\ \E i \in Rows : status[i] = "skip"
    /\ \E i \in Rows : status[i] = "exists"

\* a name that is one path component below its parent: not empty, not "." or "..",
\* without a path separator
SingleComponent(name) ==
    /\ name \notin {Empty, <<".">>, DotDot}
    /\ \A k \in 1..Len(name) : name[k] \notin {"/", "\\"}

\* C26: every folder the stage creates and every file it writes lies strictly
\* inside the destination root, at {root}/{folder}/{fileName} with a folder and a
\* file name of one component each, whatever the author text is.
C26_PathsInsideRoot ==
    /\ \A path \in DOMAIN files :
          SingleComponent(path.pasta) /\ SingleComponent(path.nome)
    /\ \A d \in dirs : d.pasta = Empty \/ SingleComponent(d.pasta)
    /\ \A i \in Rows :
          Judged(i) => SingleComponent(df[i].pasta) /\ SingleComponent(df[i].nome_arquivo)

(***************************************************************************)
(* Properties of the report operations.                                    *)
(***************************************************************************)
Wrote == last.written # NoPath
Written == csv_files[last.written]

\* the inputs of the last merge that could be read, in the order of the list (an
\* input of a merge is never the file the merge writes)
MergedInputs ==
    SelectSeq(last.inputs,
              LAMBDA q : q \in last.before /\ csv_files[q] # Corrupt)

RECURSIVE RowsOfFiles(_)
RowsOfFiles(paths) ==
    IF paths = <<>> THEN <<>>
    ELSE csv_files[Head(paths)].rows \o RowsOfFiles(Tail(paths))

IdOf(row) == IF "data_id" \in DOMAIN row THEN row.data_id ELSE Empty

\* the positions of the first occurrence of each data_id
FirstOccurrences(rows) ==
    {i \in DOMAIN rows : \A j \in DOMAIN rows : j < i => IdOf(rows[j]) # IdOf(rows[i])}

\* C16: every report an operation persists has the configured output columns, in the
\* configured order.
C16_ReportsHaveOutputColumns ==
    Wrote => Written.cols = OUTPUT_COLUMNS

\* C17: no report-writing operation overwrites a report that was on disk before it.
C17_NoReportOverwritten ==
    Wrote => last.written \notin last.before

\* the positions of the rows without a data_id
WithoutId(rows) == {i \in DOMAIN rows : IdOf(rows[i]) = Empty}

\* C18: merge_reports writes the rows of the readable inputs, in list order and
\* in-file order, keeping for each identifier data_id the first of the rows that
\* carry it; a row without an identifier repeats none and is kept.
C18_MergeKeepsFirstOccurrence ==
    (last.op = "merge_reports" /\ Wrote) =>
        LET all == RowsOfFiles(MergedInputs)
            kept == WithoutId(all) \cup FirstOccurrences(all)
        IN  /\ Len(Written.rows) = Cardinality(kept)
            /\ \A i \in kept :
                  LET k == Cardinality({j \in kept : j <= i})
                  IN  \A c \in DOMAIN all[i] : Written.rows[k][c] = all[i][c]

\* C27: merge_reports removes a row only if an earlier row carries the same present
\* data_id: the rows without a data_id are not duplicates of one another, and each
\* of them is in the merged output.
C27_MergeKeepsRecordsWithoutId ==
    (last.op = "merge_reports" /\ Wrote) =>
        LET all == RowsOfFiles(MergedInputs)
        IN  /\ Cardinality(WithoutId(Written.rows)) = Cardinality(WithoutId(all))
            /\ \A i \in DOMAIN all :
                  (\A k \in DOMAIN Written.rows : Written.rows[k].titulo # all[i].titulo) =>
                      \E j \in 1..(i - 1) : IdOf(all[j]) # Empty /\ IdOf(all[j]) = IdOf(all[i])

SameValue(a, b) == a = b \/ (IsNa(a) /\ IsNa(b))

C20_RoundTrip ==
    (last.op \in {"save_playlist_to_csv", "save_author_to_csv"} /\ Wrote) =>
        LET back == ReadCsvTable(Written).rows
        IN  /\ Len(back) = Len(dados)
            /\ \A i \in DOMAIN back :
                  \A c \in Range(ParserColumns) : SameValue(back[i][c], dados[i][c])

(***************************************************************************)
(* Properties of the front-end.                                            *)
(***************************************************************************)
\* the handler got past the validation of lines 61-77
RunStarted == st.shown \in {"success", "error"}

\* C28: a run started from the front-end with a valid playlist URL or a non-empty
\* author name calls the operation with arguments it accepts, so that the workflow
\* runs, and shows success when the workflow ends without an exception.
C28_FrontEndRunsWorkflow ==
    RunStarted =>
        /\ st.caught # "TypeError"
        /\ last.op \in {"download_from_playlist", "download_from_author"}
        /\ last.exc = "none" => st.shown = "success"

====
